---- MODULE Spec2Model ----
(***************************************************************************)
(* Model of the singly linked bid list of jguida941/LinkedList.            *)
(*                                                                         *)
(* Two implementations of the list exist in the repository: the program's  *)
(* class LinkedList (src/LinkedList.cpp) and the copy mirrored into the    *)
(* unit tests (src/unnamed/part_004).  Both are modelled, each on its own  *)
(* heap, and every call is issued to both of them.                         *)
(*                                                                         *)
(* A heap is a set of node handles 1..MaxNodes; NULL (0) is nullptr.  A    *)
(* std::string is a sequence of characters.                                *)
(***************************************************************************)
EXTENDS Integers, Sequences, FiniteSets, TLC

\* Largest number of nodes that are allocated at the same time.
MaxNodes == 3

NULL == 0
Nodes == 1..MaxNodes

\* The identifiers that are looked up and removed: the empty string, two
\* identifiers that differ in case only, and one with a trailing blank.
Ids == { <<>>, <<"a">>, <<"A">>, <<"a", " ">> }

\* The identifiers and titles of the bids that are stored.
StoredIds == { <<>>, <<"a">>, <<"A">> }
Titles == { <<>>, <<"t">> }

\* struct Bid without the amount; the bids of the list calls leave the
\* fund empty, as the bids of the unit tests do.
Bids == [bidId : StoredIds, title : Titles, fund : {<<>>}, amount : {0}]

\* Bid(): every string empty.
DefaultBid == [bidId |-> <<>>, title |-> <<>>, fund |-> <<>>, amount |-> 0]

VARIABLES
    head, tail, size,       \* LinkedList::head, tail, size (program)
    next, bid,              \* Node::next, Node::bid of the program's heap
    live,                   \* nodes of the program's heap not yet deleted
    thead, ttail, listSize, \* LinkedList::head, tail, listSize (test copy)
    tnext, tbid,            \* Node::next, Node::bid of the test heap
    tlive,                  \* nodes of the test heap not yet deleted
    last,                   \* the last call: its arguments and its results
    calls,                  \* the Append/Prepend calls made so far, or
                            \* <<"mixed">> once a Remove has been called
    pc,                     \* what the program's list is executing: "idle",
                            \* "print" (PrintList), "dtor" / "dtor2" (the
                            \* destructor before / after it has read
                            \* current->next), "gone" (destroyed)
    cur, nextNode,          \* the locals current and nextNode of PrintList
                            \* and of the destructor
    log,                    \* PrintList: the bids displayed so far;
                            \* destructor: its reads and deletes, in order
    owned,                  \* the chain of nodes when the destructor began
    prev,                   \* the output of the PrintList runs completed
                            \* since the last mutation, and their number
    input, trimmed,         \* the argument of trimWhitespace and, once it
                            \* has been called, its result
    file, row,              \* loadBids: the csv::Parser and the row index i
    before,                 \* loadBids: the records stored when it was called
    shown,                  \* the box the menu displayed last
    cerr,                   \* the menu action has written to std::cerr
    loaded,                 \* Load Bids has been chosen at least once
    doc,                    \* Document Model: a row table to be serialized
    text,                   \* the text of a file
    model,                  \* Document Model: its state after Load(path)
    stdin,                  \* main: the characters of standard input not
                            \* yet read
    choice,                 \* main: the local choice
    executed,               \* main: the choices whose case has been run
    script                  \* the choice lines standard input began with

walkVars == <<pc, cur, nextNode, log, owned, prev>>
trimVars == <<input, trimmed>>
menuVars == <<file, row, before, shown, cerr, loaded>>
csvVars == <<doc, text, model>>
loopVars == <<stdin, choice, executed, script>>
sideVars == <<trimVars, csvVars, loopVars>>
auxVars == <<walkVars, menuVars, sideVars>>

vars == <<head, tail, size, next, bid, live,
          thead, ttail, listSize, tnext, tbid, tlive, last, calls,
          pc, cur, nextNode, log, owned, prev,
          input, trimmed, file, row, before, shown, cerr, loaded,
          doc, text, model, stdin, choice, executed, script>>

progVars == <<head, tail, size, next, bid, live>>
testVars == <<thead, ttail, listSize, tnext, tbid, tlive>>

----------------------------------------------------------------------------
\* A comparison that ignores case.
StrEqFold(s, t) ==
    LET low(c) == IF c = "A" THEN "a" ELSE c
    IN  /\ Len(s) = Len(t)
        /\ \A i \in 1..Len(s) : low(s[i]) = low(t[i])

\* std::string operator==: same length, same characters.
StrEq(s, t) ==
    /\ Len(s) = Len(t)
    /\ \A i \in 1..Len(s) : s[i] = t[i]

\* operator new: an address that is not in use; the least free handle.
New(inUse) == CHOOSE n \in Nodes \ inUse : \A m \in Nodes \ inUse : n <= m

\* The nodes met when following nx from node h, at most fuel of them.
RECURSIVE ChainFrom(_, _, _)
ChainFrom(h, nx, fuel) ==
    IF h = NULL \/ fuel = 0 THEN << >>
    ELSE <<h>> \o ChainFrom(nx[h], nx, fuel - 1)

\* The walk of PrintList / the destructor: the nodes from head, in order.
\* One step more than there are nodes, so that a cycle shows as a repeat.
Chain == ChainFrom(head, next, MaxNodes + 1)
TestChain == ChainFrom(thead, tnext, MaxNodes + 1)

\* The head-to-tail record sequence.
Records == [i \in 1..Len(Chain) |-> bid[Chain[i]]]
TestRecords == [i \in 1..Len(TestChain) |-> tbid[TestChain[i]]]

\* Position in a record sequence of the first record carrying id; 0 if none.
FirstPos(recs, id) ==
    IF \E i \in 1..Len(recs) : recs[i].bidId = id
    THEN CHOOSE i \in 1..Len(recs) :
            /\ recs[i].bidId = id
            /\ \A j \in 1..(i - 1) : recs[j].bidId # id
    ELSE 0

----------------------------------------------------------------------------
\* No PrintList has run yet.
NoPrint == [out |-> << >>, n |-> 0]

\* Nothing is being executed on the list.
WalkInit ==
    /\ pc = "idle"
    /\ cur = NULL /\ nextNode = NULL
    /\ log = << >> /\ owned = << >>
    /\ prev = NoPrint

\* trimWhitespace has not been called.
NotTrimmed == <<"not trimmed">>

\* No row table, no text and no Load yet.
NoDoc == [header |-> <<<<"no table">>>>, rows |-> << >>]
NoText == <<"no text">>
NotLoaded == [error |-> "not loaded", line |-> 0, header |-> << >>,
              rows |-> << >>]

CsvInit == doc = NoDoc /\ text = NoText /\ model = NotLoaded

\* main before the menu loop: int choice = 0; nothing on standard input.
LoopInit ==
    /\ stdin = << >> /\ script = << >>
    /\ choice = 0
    /\ executed = << >>

\* No csv::Parser exists, the menu has displayed nothing.
NoFile == [kind |-> "none", rows |-> << >>]
NothingShown == [title |-> "", n |-> 0]

MenuInit ==
    /\ file = NoFile /\ row = 0 /\ before = << >>
    /\ shown = NothingShown
    /\ cerr = FALSE
    /\ loaded = FALSE

\* LinkedList::LinkedList() of both lists; nothing allocated.
StoreInit ==
    /\ WalkInit
    /\ MenuInit
    /\ head = NULL /\ tail = NULL /\ size = 0
    /\ next = [n \in Nodes |-> NULL]
    /\ bid = [n \in Nodes |-> DefaultBid]
    /\ live = {}
    /\ thead = NULL /\ ttail = NULL /\ listSize = 0
    /\ tnext = [n \in Nodes |-> NULL]
    /\ tbid = [n \in Nodes |-> DefaultBid]
    /\ tlive = {}
    /\ last = [op |-> "Init", id |-> <<>>, rec |-> DefaultBid, ret |-> FALSE,
               result |-> DefaultBid, tresult |-> NULL, pos |-> 0,
               rep |-> FALSE]
    /\ calls = << >>

Init ==
    /\ StoreInit
    /\ CsvInit
    /\ LoopInit
    /\ input = << >> /\ trimmed = NotTrimmed

----------------------------------------------------------------------------
\* The program's list (src/LinkedList.cpp).

\* LinkedList::Append (Append itself is the operator of Sequences)
AppendBid(b) ==
    LET newNode == New(live) IN
    /\ live' = live \cup {newNode}
    /\ bid' = [bid EXCEPT ![newNode] = b]
    /\ IF head = NULL
       THEN /\ head' = newNode
            /\ tail' = newNode
            /\ next' = [next EXCEPT ![newNode] = NULL]
       ELSE /\ next' = [next EXCEPT ![newNode] = NULL, ![tail] = newNode]
            /\ tail' = newNode
            /\ head' = head
    /\ size' = size + 1

\* Prepend that does not link the new node to the old head.
PrependUnlinked(b) ==
    LET newNode == New(live) IN
    /\ live' = live \cup {newNode}
    /\ bid' = [bid EXCEPT ![newNode] = b]
    /\ IF head = NULL
       THEN /\ head' = newNode
            /\ tail' = newNode
            /\ next' = [next EXCEPT ![newNode] = NULL]
       ELSE /\ next' = [next EXCEPT ![newNode] = NULL]
            /\ head' = newNode
            /\ tail' = tail
    /\ size' = size + 1

\* LinkedList::Prepend
Prepend(b) ==
    LET newNode == New(live) IN
    /\ live' = live \cup {newNode}
    /\ bid' = [bid EXCEPT ![newNode] = b]
    /\ IF head = NULL
       THEN /\ head' = newNode
            /\ tail' = newNode
            /\ next' = [next EXCEPT ![newNode] = NULL]
       ELSE /\ next' = [next EXCEPT ![newNode] = head]
            /\ head' = newNode
            /\ tail' = tail
    /\ size' = size + 1

\* A walk that finds the last node whose successor carries bidId.
RECURSIVE RemoveWalkLast(_, _)
RemoveWalkLast(current, bidId) ==
    IF next[current] = NULL THEN NULL
    ELSE LET later == RemoveWalkLast(next[current], bidId) IN
         IF later # NULL THEN later
         ELSE IF StrEq(bid[next[current]].bidId, bidId) THEN current
         ELSE NULL

\* The loop of LinkedList::Remove: the first node current, walking from the
\* given one, whose successor carries bidId; NULL when the walk reaches the
\* last node without a match.
RECURSIVE RemoveWalk(_, _)
RemoveWalk(current, bidId) ==
    IF next[current] = NULL THEN NULL
    ELSE IF StrEq(bid[next[current]].bidId, bidId) THEN current
    ELSE RemoveWalk(next[current], bidId)

\* delete temp: the node leaves the heap; its storage is cleared.
Delete(temp, nx) == [nx EXCEPT ![temp] = NULL]

\* Remove, head branch, with the tail left as it is.
RemoveHeadKeepsTail ==
    LET temp == head IN
    /\ head' = next[head]
    /\ live' = live \ {temp}
    /\ next' = Delete(temp, next)
    /\ bid' = [bid EXCEPT ![temp] = DefaultBid]
    /\ size' = size - 1
    /\ tail' = tail

\* LinkedList::Remove, the branch taken when the head node matches.
RemoveHead ==
    LET temp == head IN
    /\ head' = next[head]
    /\ live' = live \ {temp}
    /\ next' = Delete(temp, next)
    /\ bid' = [bid EXCEPT ![temp] = DefaultBid]
    /\ size' = size - 1
    /\ tail' = IF next[head] = NULL THEN NULL ELSE tail

\* Remove, inner branch, with the tail left as it is.
RemoveNextKeepsTail(current) ==
    LET temp == next[current] IN
    /\ next' = Delete(temp, [next EXCEPT ![current] = next[temp]])
    /\ tail' = tail
    /\ live' = live \ {temp}
    /\ bid' = [bid EXCEPT ![temp] = DefaultBid]
    /\ size' = size - 1
    /\ head' = head

\* Remove, inner branch, with the counter left as it is.
RemoveNextKeepsSize(current) ==
    LET temp == next[current] IN
    /\ next' = Delete(temp, [next EXCEPT ![current] = next[temp]])
    /\ tail' = IF temp = tail THEN current ELSE tail
    /\ live' = live \ {temp}
    /\ bid' = [bid EXCEPT ![temp] = DefaultBid]
    /\ size' = size
    /\ head' = head

\* The unlinking of Remove without its delete temp.
RemoveNextLeaks(current) ==
    LET temp == next[current] IN
    /\ next' = [next EXCEPT ![current] = next[temp]]
    /\ tail' = IF temp = tail THEN current ELSE tail
    /\ size' = size - 1
    /\ UNCHANGED <<head, live, bid>>

\* LinkedList::Remove, the branch taken inside the loop when the successor
\* of current matches.
RemoveNext(current) ==
    LET temp == next[current] IN
    /\ next' = Delete(temp, [next EXCEPT ![current] = next[temp]])
    /\ tail' = IF temp = tail THEN current ELSE tail
    /\ live' = live \ {temp}
    /\ bid' = [bid EXCEPT ![temp] = DefaultBid]
    /\ size' = size - 1
    /\ head' = head

\* LinkedList::Remove
Remove(bidId) ==
    IF head = NULL
    THEN UNCHANGED progVars
    ELSE IF StrEq(bid[head].bidId, bidId)
    THEN RemoveHead
    ELSE LET current == RemoveWalk(head, bidId) IN
         IF current = NULL
         THEN UNCHANGED progVars
         ELSE RemoveNext(current)

\* The loop of LinkedList::Search.
RECURSIVE SearchWalk(_, _)
SearchWalk(current, bidId) ==
    IF current = NULL THEN DefaultBid
    ELSE IF StrEq(bid[current].bidId, bidId) THEN bid[current]
    ELSE SearchWalk(next[current], bidId)

\* Search that starts at the node after head without looking at head.
SearchSkipsHead(bidId) ==
    SearchWalk(IF head # NULL THEN next[head] ELSE NULL, bidId)

\* LinkedList::Search
Search(bidId) ==
    IF head # NULL /\ StrEq(bid[head].bidId, bidId)
    THEN bid[head]
    ELSE SearchWalk(IF head # NULL THEN next[head] ELSE NULL, bidId)

\* LinkedList::Size
Size == size

----------------------------------------------------------------------------
\* The list mirrored into the unit tests (src/unnamed/part_004).

\* LinkedList::Append (test copy)
TestAppend(b) ==
    LET newNode == New(tlive) IN
    /\ tlive' = tlive \cup {newNode}
    /\ tbid' = [tbid EXCEPT ![newNode] = b]
    /\ IF thead = NULL
       THEN /\ thead' = newNode
            /\ ttail' = newNode
            /\ tnext' = [tnext EXCEPT ![newNode] = NULL]
       ELSE /\ tnext' = [tnext EXCEPT ![newNode] = NULL, ![ttail] = newNode]
            /\ ttail' = newNode
            /\ thead' = thead
    /\ listSize' = listSize + 1

\* LinkedList::Prepend (test copy): links first, then repairs tail.
TestPrepend(b) ==
    LET newNode == New(tlive) IN
    /\ tlive' = tlive \cup {newNode}
    /\ tbid' = [tbid EXCEPT ![newNode] = b]
    /\ tnext' = [tnext EXCEPT ![newNode] = thead]
    /\ thead' = newNode
    /\ ttail' = IF ttail = NULL THEN newNode ELSE ttail
    /\ listSize' = listSize + 1

\* The loop of LinkedList::Remove (test copy).
RECURSIVE TestRemoveWalk(_, _)
TestRemoveWalk(current, bidId) ==
    IF tnext[current] = NULL THEN NULL
    ELSE IF StrEq(tbid[tnext[current]].bidId, bidId) THEN current
    ELSE TestRemoveWalk(tnext[current], bidId)

\* The value LinkedList::Remove (test copy) returns.
TestRemoveReturn(bidId) ==
    IF thead = NULL THEN FALSE
    ELSE IF StrEq(tbid[thead].bidId, bidId) THEN TRUE
    ELSE TestRemoveWalk(thead, bidId) # NULL

\* LinkedList::Remove (test copy), head branch.
TestRemoveHead ==
    LET temp == thead IN
    /\ thead' = tnext[thead]
    /\ tlive' = tlive \ {temp}
    /\ tnext' = Delete(temp, tnext)
    /\ tbid' = [tbid EXCEPT ![temp] = DefaultBid]
    /\ listSize' = listSize - 1
    /\ ttail' = IF tnext[thead] = NULL THEN NULL ELSE ttail

\* LinkedList::Remove (test copy), branch inside the loop.
TestRemoveNext(current) ==
    LET temp == tnext[current] IN
    /\ tnext' = Delete(temp, [tnext EXCEPT ![current] = tnext[temp]])
    /\ ttail' = IF temp = ttail THEN current ELSE ttail
    /\ tlive' = tlive \ {temp}
    /\ tbid' = [tbid EXCEPT ![temp] = DefaultBid]
    /\ listSize' = listSize - 1
    /\ thead' = thead

\* LinkedList::Remove (test copy)
TestRemove(bidId) ==
    IF thead = NULL
    THEN UNCHANGED testVars
    ELSE IF StrEq(tbid[thead].bidId, bidId)
    THEN TestRemoveHead
    ELSE LET current == TestRemoveWalk(thead, bidId) IN
         IF current = NULL
         THEN UNCHANGED testVars
         ELSE TestRemoveNext(current)

\* LinkedList::Search (test copy): the node whose bid it returns a pointer
\* to, NULL for nullptr.
RECURSIVE TestSearchFrom(_, _)
TestSearchFrom(current, bidId) ==
    IF current = NULL THEN NULL
    ELSE IF StrEq(tbid[current].bidId, bidId) THEN current
    ELSE TestSearchFrom(tnext[current], bidId)

TestSearch(bidId) == TestSearchFrom(thead, bidId)

\* LinkedList::Contains, Size, IsEmpty (test copy)
TestContains(bidId) == TestSearch(bidId) # NULL
TestSize == listSize
TestIsEmpty == thead = NULL

----------------------------------------------------------------------------
\* The calls.  Each is issued to both lists; last records the call and what
\* it returned, calls records the history of insertions.

\* op, id, rec: the call and its argument.  ret: what Remove of the test
\* copy returned.  result, tresult: what Search of the program and of the
\* test copy returned.  pos: where the first record carrying id stood when
\* Remove or Search was called (0: nowhere).  rep: the call is a Remove
\* that repeats, with the same id, a Remove that has just returned true.
CallRecord(op, id, rec, ret, result, tresult, pos, rep) ==
    [op |-> op, id |-> id, rec |-> rec, ret |-> ret,
     result |-> result, tresult |-> tresult, pos |-> pos, rep |-> rep]

Mixed == <<"mixed">>

CallAppend(b) ==
    /\ Cardinality(live) < MaxNodes
    /\ Cardinality(tlive) < MaxNodes
    /\ AppendBid(b)
    /\ TestAppend(b)
    /\ last' = CallRecord("Append", b.bidId, b, FALSE, DefaultBid, NULL, 0,
                          FALSE)
    /\ calls' = IF calls = Mixed THEN Mixed
                ELSE calls \o << <<"Append", b>> >>
    /\ UNCHANGED auxVars

CallPrepend(b) ==
    /\ Cardinality(live) < MaxNodes
    /\ Cardinality(tlive) < MaxNodes
    /\ Prepend(b)
    /\ TestPrepend(b)
    /\ last' = CallRecord("Prepend", b.bidId, b, FALSE, DefaultBid, NULL, 0,
                          FALSE)
    /\ calls' = IF calls = Mixed THEN Mixed
                ELSE calls \o << <<"Prepend", b>> >>
    /\ UNCHANGED auxVars

CallRemove(id) ==
    /\ Remove(id)
    /\ TestRemove(id)
    /\ last' = CallRecord("Remove", id, DefaultBid, TestRemoveReturn(id),
                          DefaultBid, NULL, FirstPos(Records, id),
                          last.op = "Remove" /\ last.ret /\ last.id = id)
    /\ calls' = Mixed
    /\ UNCHANGED auxVars

CallSearch(id) ==
    /\ last' = CallRecord("Search", id, DefaultBid, FALSE,
                          Search(id), TestSearch(id), FirstPos(Records, id),
                          FALSE)
    /\ UNCHANGED <<progVars, testVars, calls, auxVars>>

Next ==
    \/ \E b \in Bids : CallAppend(b)
    \/ \E b \in Bids : CallPrepend(b)
    \/ \E id \in Ids : CallRemove(id)
    \/ \E id \in Ids : CallSearch(id)

Spec == Init /\ [][Next]_vars

----------------------------------------------------------------------------
\* Observations used by the properties.

\* The set of nodes reachable from head by following next.
Reachable == {Chain[i] : i \in 1..Len(Chain)}
TestReachable == {TestChain[i] : i \in 1..Len(TestChain)}

\* A sequence without repeated elements.
NoRepeat(c) == \A i, j \in 1..Len(c) : i # j => c[i] # c[j]

Reverse(q) == [i \in 1..Len(q) |-> q[Len(q) + 1 - i]]

IsPrepend(c) == c[1] = "Prepend"
IsAppend(c) == c[1] = "Append"

BidsOf(cs) == [i \in 1..Len(cs) |-> cs[i][2]]

\* The record sequence a history of Append and Prepend calls must produce:
\* the prepended bids, last call first, then the appended ones in call order.
Expected(cs) ==
    Reverse(BidsOf(SelectSeq(cs, IsPrepend))) \o BidsOf(SelectSeq(cs, IsAppend))

----------------------------------------------------------------------------
\* C1: after any sequence of Append, Prepend and Remove calls on a list that
\* starts empty, the stored counter (Size()) equals the number of nodes
\* reachable from head by following next.  Checked of both lists.
C1_SizeCountsReachable ==
    /\ Size = Cardinality(Reachable)
    /\ TestSize = Cardinality(TestReachable)

\* A list that has been filled, shrunk by an inner removal and refilled.
C1_Witness ==
    /\ calls = Mixed
    /\ last.op = "Prepend"
    /\ size = MaxNodes
    /\ Cardinality(Reachable) = MaxNodes

\* C2: in every state reachable by Append, Prepend and Remove from the empty
\* list, head is null exactly when tail is null, and exactly when the
\* counter is 0.  Checked of both lists.
C2_EmptyIffNull ==
    /\ (head = NULL) <=> (tail = NULL)
    /\ (head = NULL) <=> (size = 0)
    /\ (thead = NULL) <=> (ttail = NULL)
    /\ (thead = NULL) <=> (listSize = 0)

\* A Remove has just taken the only node out of the list.
C2_Witness ==
    /\ last.op = "Remove" /\ last.ret
    /\ head = NULL /\ tail = NULL /\ size = 0

\* The chain from h over nx, of n nodes, is a simple null-terminated path
\* that ends at t.
SimplePath(h, t, nx, n, c) ==
    /\ Len(c) = n
    /\ NoRepeat(c)
    /\ c[Len(c)] = t
    /\ nx[t] = NULL
    /\ \A i \in 1..(Len(c) - 1) : nx[c[i]] # NULL /\ c[i] # t
    /\ ChainFrom(h, nx, n)[n] = t

\* C3: in every non-empty state reachable by Append, Prepend and Remove, the
\* chain from head is a simple null-terminated path that ends at tail:
\* tail->next is null, every other reachable node has a non-null next, no
\* node is visited twice, and following next from head reaches tail in
\* exactly count-1 steps.  Checked of both lists.
C3_ChainEndsAtTail ==
    /\ head # NULL => SimplePath(head, tail, next, size, Chain)
    /\ thead # NULL => SimplePath(thead, ttail, tnext, listSize, TestChain)

\* A Remove has just taken the tail node off a list of three or more nodes.
C3_Witness ==
    /\ last.op = "Remove" /\ last.ret
    /\ size >= 2
    /\ last.pos = size + 1

\* C4: for every sequence of Append and Prepend calls on an empty list,
\* Size() equals the number of calls and the head-to-tail record sequence is
\* the prepended records in reverse call order followed by the appended
\* records in call order.  Checked of both lists.
C4_InsertionOrder ==
    calls # Mixed =>
        /\ Size = Len(calls)
        /\ Records = Expected(calls)
        /\ TestSize = Len(calls)
        /\ TestRecords = Expected(calls)

\* Three insertions, of both kinds, an Append between two Prepends.
C4_Witness ==
    /\ calls # Mixed
    /\ Len(calls) = 3
    /\ calls[1][1] = "Prepend" /\ calls[2][1] = "Append"
    /\ calls[3][1] = "Prepend"
    /\ calls[1][2] # calls[3][2]

----------------------------------------------------------------------------
\* Some record of recs carries id.
Carried(recs, id) == \E i \in 1..Len(recs) : recs[i].bidId = id

\* C5: Search(id) returns the record of the first node in head-to-tail order
\* whose identifier is exactly equal to id (no case folding, no trimming),
\* also when several nodes carry that identifier; when no node's identifier
\* equals id it returns the not-found result: a default record in the
\* program, nullptr in the test list.
C5_SearchFirstMatch ==
    last.op = "Search" =>
        LET p == FirstPos(Records, last.id) IN
        /\ last.result = IF p = 0 THEN DefaultBid ELSE Records[p]
        /\ last.tresult = IF p = 0 THEN NULL ELSE TestChain[p]

\* A Search has returned the second of three records, the third of which
\* carries the same identifier and another title, the first of which
\* carries the identifier in the other case.
C5_Witness ==
    /\ last.op = "Search"
    /\ Len(Records) = 3
    /\ last.pos = 2
    /\ last.result = Records[2]
    /\ Records[3].bidId = last.id
    /\ Records[3].title # Records[2].title
    /\ StrEqFold(Records[1].bidId, last.id)

\* C6: Search("") returns not-found for every store reachable by Append,
\* Prepend and Remove, whatever records the store contains, including
\* records whose identifier is the empty string.
C6_EmptyIdNotFound ==
    (last.op = "Search" /\ last.id = << >>) =>
        /\ last.result = DefaultBid
        /\ last.tresult = NULL

\* C7, as stated: whenever Search(id) succeeds, the next Remove(id) returns
\* true and performs a removal, and a second Remove(id) issued immediately
\* afterwards returns false.
C7_RemoveTrueThenFalse ==
    [][ last'.op = "Remove" =>
          /\ TestSearch(last'.id) # NULL =>
                (last'.ret /\ size' = size - 1 /\ listSize' = listSize - 1)
          /\ (last.op = "Remove" /\ last.ret /\ last.id = last'.id) =>
                (~last'.ret /\ size' = size /\ listSize' = listSize)
      ]_vars

\* C7, amended: whenever Search(id) succeeds, the next Remove(id) returns
\* true and performs a removal; a second Remove(id) issued immediately
\* afterwards returns false and removes nothing exactly when no further
\* node carries id, and otherwise removes the next such node and returns
\* true.
C7_RemoveOnePerCall ==
    [][ last'.op = "Remove" =>
          /\ TestSearch(last'.id) # NULL =>
                (last'.ret /\ size' = size - 1 /\ listSize' = listSize - 1)
          /\ (last.op = "Remove" /\ last.ret /\ last.id = last'.id) =>
                IF Carried(Records, last'.id)
                THEN last'.ret /\ size' = size - 1 /\ listSize' = listSize - 1
                ELSE ~last'.ret /\ size' = size /\ listSize' = listSize
      ]_vars

\* A Remove that repeats the Remove before it has returned false, while a
\* record whose identifier differs in case only is still stored.
C7_Witness ==
    /\ last.op = "Remove" /\ last.rep
    /\ ~last.ret
    /\ size >= 1
    /\ \E i \in 1..Len(Records) : StrEqFold(Records[i].bidId, last.id)

\* C8: in a store with at least two nodes, Remove(id) where the first match
\* is the head node sets head to the former head's successor and leaves tail
\* unchanged; Remove(id) where the first match is the tail node sets tail to
\* the former tail's predecessor, sets that predecessor's next to null and
\* leaves head unchanged.  Checked of both lists.
C8_RemoveAtEnds ==
    [][ (last'.op = "Remove" /\ Len(Records) >= 2) =>
          LET p == FirstPos(Records, last'.id)
              n == Len(Records)
          IN  /\ p = 1 =>
                    /\ head' = next[head] /\ tail' = tail
                    /\ thead' = tnext[thead] /\ ttail' = ttail
              /\ p = n =>
                    /\ tail' = Chain[n - 1] /\ next'[Chain[n - 1]] = NULL
                    /\ head' = head
                    /\ ttail' = TestChain[n - 1]
                    /\ tnext'[TestChain[n - 1]] = NULL
                    /\ thead' = thead
      ]_vars

\* A Remove has taken the tail node off a list of exactly two nodes.
C8_Witness ==
    /\ last.op = "Remove" /\ last.ret
    /\ last.pos = 2
    /\ size = 1 /\ head = tail /\ head # NULL

\* C9: Remove(id) on a store holding exactly one node whose identifier equals
\* id leaves the store empty: head and tail are both null and Size() is 0,
\* and a following Append or Prepend works as on a freshly constructed list.
\* Checked of both lists.
C9_RemoveSoleNode ==
    [][ /\ (last'.op = "Remove" /\ Len(Records) = 1
              /\ Records[1].bidId = last'.id) =>
                /\ head' = NULL /\ tail' = NULL /\ Size' = 0
                /\ thead' = NULL /\ ttail' = NULL /\ TestSize' = 0
        /\ (last.op = "Remove" /\ last.ret /\ size = 0
              /\ last'.op \in {"Append", "Prepend"}) =>
                /\ head' # NULL /\ tail' = head' /\ next'[head'] = NULL
                /\ Size' = 1 /\ Records' = <<last'.rec>>
                /\ thead' # NULL /\ ttail' = thead' /\ tnext'[thead'] = NULL
                /\ TestSize' = 1 /\ TestRecords' = <<last'.rec>>
      ]_vars

\* A Remove has just emptied a one-node store: the match stood first, and
\* no node of either heap is left allocated.
C9_Witness ==
    /\ last.op = "Remove" /\ last.ret /\ last.pos = 1
    /\ head = NULL /\ tail = NULL /\ size = 0
    /\ thead = NULL /\ ttail = NULL /\ listSize = 0
    /\ live = {} /\ tlive = {}

\* C10: Remove(id) when no node's identifier equals id, including on an empty
\* store, reports no removal (returns false) and leaves head, tail, the
\* counter and the head-to-tail record sequence unchanged.  Checked of both
\* lists.
C10_RemoveMissChangesNothing ==
    [][ (last'.op = "Remove" /\ ~Carried(Records, last'.id)) =>
          /\ ~last'.ret
          /\ head' = head /\ tail' = tail /\ size' = size
          /\ Records' = Records
          /\ thead' = thead /\ ttail' = ttail /\ listSize' = listSize
          /\ TestRecords' = TestRecords
      ]_vars

\* A Remove of an identifier with a trailing blank has missed in a store
\* that holds the identifier without the blank.
C10_Witness ==
    /\ last.op = "Remove" /\ ~last.ret /\ last.pos = 0
    /\ last.id = <<"a", " ">>
    /\ Carried(Records, <<"a">>)

----------------------------------------------------------------------------
\* The sequence q without its p-th element.
Without(q, p) == [i \in 1..(Len(q) - 1) |-> IF i < p THEN q[i] ELSE q[i + 1]]

\* C11: a Remove(id) that finds a match unlinks exactly one node, the first
\* one in head-to-tail order whose identifier equals id: the counter
\* decreases by exactly 1 and the remaining records keep their previous
\* relative order, with later nodes carrying the same identifier still
\* present.  Checked of both lists.
C11_RemoveUnlinksFirstMatch ==
    [][ (last'.op = "Remove" /\ Carried(Records, last'.id)) =>
          LET p == FirstPos(Records, last'.id) IN
          /\ Size' = Size - 1
          /\ Chain' = Without(Chain, p)
          /\ Records' = Without(Records, p)
          /\ live' = live \ {Chain[p]}
          /\ TestSize' = TestSize - 1
          /\ TestChain' = Without(TestChain, p)
          /\ TestRecords' = Without(TestRecords, p)
          /\ tlive' = tlive \ {TestChain[p]}
      ]_vars

\* A Remove has unlinked the second of three nodes; the third, which carries
\* the same identifier under another title, is still stored behind the
\* first.
C11_Witness ==
    /\ last.op = "Remove" /\ last.ret
    /\ last.pos = 2
    /\ size = 2 /\ Len(Records) = 2
    /\ Records[2].bidId = last.id
    /\ Records[2].title = <<"t">>
    /\ Records[1].bidId # last.id

\* The two caller-visible states of a list.
Empty(h, t, n) == h = NULL /\ t = NULL /\ n = 0
NonEmpty(h, t, n) == h # NULL /\ t # NULL /\ n > 0

\* Search and the walk of Remove come to an end with a result, whatever the
\* state they are called in: no walk leaves the list.
Total(id) ==
    /\ Search(id) \in Bids
    /\ TestSearch(id) \in Nodes \cup {NULL}
    /\ TestRemoveReturn(id) \in BOOLEAN
    /\ head # NULL => RemoveWalk(head, id) \in Nodes \cup {NULL}

\* What C12 says of every call but Remove: the store is always in one of
\* the two states, Remove and Search can be called in both, Append and
\* Prepend end in NonEmpty, Search changes nothing.
C12_Common ==
    /\ Empty(head, tail, size)' \/ NonEmpty(head, tail, size)'
    /\ Empty(thead, ttail, listSize)' \/ NonEmpty(thead, ttail, listSize)'
    /\ \A id \in Ids : Total(id)
    /\ last'.op \in {"Append", "Prepend"} =>
          /\ NonEmpty(head, tail, size)'
          /\ NonEmpty(thead, ttail, listSize)'
    /\ last'.op = "Search" => UNCHANGED <<progVars, testVars>>

\* C12, as stated: the store has only the two caller-visible states Empty
\* and NonEmpty, every operation is total on both, Append and Prepend always
\* end in NonEmpty, Remove ends in Empty only when called on a one-node
\* store whose node matches, and Search never changes the state.
C12_TwoStatesStrict ==
    [][ /\ C12_Common
        /\ (last'.op = "Remove" /\ Empty(head, tail, size)') =>
              (Len(Records) = 1 /\ Records[1].bidId = last'.id)
      ]_vars

\* C12, amended: as above, but Remove ends in Empty only when called on an
\* empty store, which it leaves as it is, or on a one-node store whose node
\* matches.
C12_TwoStates ==
    [][ /\ C12_Common
        /\ (last'.op = "Remove" /\ Empty(head, tail, size)') =>
              \/ Empty(head, tail, size) /\ UNCHANGED <<progVars, testVars>>
              \/ Len(Records) = 1 /\ Records[1].bidId = last'.id
        /\ (last'.op = "Remove" /\ Empty(thead, ttail, listSize)') =>
              \/ Empty(thead, ttail, listSize)
              \/ Len(TestRecords) = 1 /\ TestRecords[1].bidId = last'.id
      ]_vars

\* A Remove has been called on the store that the Remove before it had
\* emptied, and has left it empty.
C12_Witness ==
    /\ last.op = "Remove" /\ last.rep /\ ~last.ret
    /\ Empty(head, tail, size)
    /\ Empty(thead, ttail, listSize)

----------------------------------------------------------------------------
\* PrintList and the destructor of the program's list, one loop iteration
\* at a time.  Between two walks the list is mutated by Append, Prepend and
\* Remove; the test copy and the call record stay as constructed.

\* Number of PrintList runs that are followed without a mutation in between.
MaxPrints == 2

frozenVars == <<testVars, last, calls, sideVars, menuVars>>

ListAppend(b) ==
    /\ pc = "idle"
    /\ Cardinality(live) < MaxNodes
    /\ AppendBid(b)
    /\ prev' = NoPrint /\ log' = << >>
    /\ UNCHANGED <<frozenVars, pc, cur, nextNode, owned>>

ListPrepend(b) ==
    /\ pc = "idle"
    /\ Cardinality(live) < MaxNodes
    /\ Prepend(b)
    /\ prev' = NoPrint /\ log' = << >>
    /\ UNCHANGED <<frozenVars, pc, cur, nextNode, owned>>

ListRemove(id) ==
    /\ pc = "idle"
    /\ Remove(id)
    /\ prev' = NoPrint /\ log' = << >>
    /\ UNCHANGED <<frozenVars, pc, cur, nextNode, owned>>

\* A PrintList that starts at the node after head.
PrintStartSkipsHead ==
    /\ pc = "idle"
    /\ prev.n < MaxPrints
    /\ pc' = "print"
    /\ cur' = IF head # NULL THEN next[head] ELSE NULL
    /\ log' = << >>
    /\ UNCHANGED <<progVars, frozenVars, nextNode, owned, prev>>

\* LinkedList::PrintList: Node *current = head
PrintStart ==
    /\ pc = "idle"
    /\ prev.n < MaxPrints
    /\ pc' = "print"
    /\ cur' = head
    /\ log' = << >>
    /\ UNCHANGED <<progVars, frozenVars, nextNode, owned, prev>>

\* LinkedList::PrintList: displayBid(current->bid); current = current->next
PrintStep ==
    /\ pc = "print"
    /\ cur # NULL
    /\ log' = Append(log, bid[cur])
    /\ cur' = next[cur]
    /\ UNCHANGED <<progVars, frozenVars, pc, nextNode, owned, prev>>

\* LinkedList::PrintList: current is null, the loop and the call end.
PrintEnd ==
    /\ pc = "print"
    /\ cur = NULL
    /\ pc' = "idle"
    /\ prev' = [out |-> log, n |-> prev.n + 1]
    /\ UNCHANGED <<progVars, frozenVars, cur, nextNode, log, owned>>

\* LinkedList::~LinkedList: Node* current = head
DtorStart ==
    /\ pc = "idle"
    /\ pc' = "dtor"
    /\ cur' = head
    /\ owned' = Chain
    /\ log' = << >> /\ prev' = NoPrint
    /\ UNCHANGED <<progVars, frozenVars, nextNode>>

\* LinkedList::~LinkedList: Node* nextNode = current->next
DtorRead ==
    /\ pc = "dtor"
    /\ cur # NULL
    /\ nextNode' = next[cur]
    /\ log' = Append(log, <<"read", cur>>)
    /\ pc' = "dtor2"
    /\ UNCHANGED <<progVars, frozenVars, cur, owned, prev>>

\* A destructor that deletes the node first and reads its next afterwards.
DtorDeleteThenRead ==
    /\ pc = "dtor2"
    /\ live' = live \ {cur}
    /\ next' = Delete(cur, next)
    /\ bid' = [bid EXCEPT ![cur] = DefaultBid]
    /\ log' = log \o << <<"delete", cur>>, <<"read", cur>> >>
    /\ cur' = Delete(cur, next)[cur]
    /\ pc' = "dtor"
    /\ UNCHANGED <<head, tail, size, frozenVars, nextNode, owned, prev>>

\* LinkedList::~LinkedList: delete current; current = nextNode
DtorDelete ==
    /\ pc = "dtor2"
    /\ live' = live \ {cur}
    /\ next' = Delete(cur, next)
    /\ bid' = [bid EXCEPT ![cur] = DefaultBid]
    /\ log' = Append(log, <<"delete", cur>>)
    /\ cur' = nextNode
    /\ pc' = "dtor"
    /\ UNCHANGED <<head, tail, size, frozenVars, nextNode, owned, prev>>

\* LinkedList::~LinkedList: current is null, the list is gone.
DtorEnd ==
    /\ pc = "dtor"
    /\ cur = NULL
    /\ pc' = "gone"
    /\ UNCHANGED <<progVars, frozenVars, cur, nextNode, log, owned, prev>>

NextWalk ==
    \/ \E b \in Bids : ListAppend(b)
    \/ \E b \in Bids : ListPrepend(b)
    \/ \E id \in Ids : ListRemove(id)
    \/ PrintStart
    \/ PrintStep
    \/ PrintEnd
    \/ DtorStart
    \/ DtorRead
    \/ DtorDelete
    \/ DtorEnd

SpecWalk == Init /\ [][NextWalk]_vars

----------------------------------------------------------------------------
IsDelete(e) == e[1] = "delete"

\* The nodes the destructor has deleted so far, in the order of deletion.
Deleted == [i \in 1..Len(SelectSeq(log, IsDelete)) |->
                SelectSeq(log, IsDelete)[i][2]]

\* C13: destroying a list reached by any sequence of Append, Prepend and
\* Remove releases every node still owned by the list exactly once, in
\* head-to-tail order, and reads each node's next pointer before that node
\* is released; no node is released twice and no released node is read.
C13_DestructorReleasesOnce ==
    pc \in {"dtor", "dtor2", "gone"} =>
        /\ Deleted = SubSeq(owned, 1, Len(Deleted))
        /\ NoRepeat(Deleted)
        /\ \A j \in 1..Len(log) :
              log[j][1] = "delete" =>
                  \E i \in 1..(j - 1) : log[i] = <<"read", log[j][2]>>
        /\ \A i \in 1..Len(log) :
              log[i][1] = "read" =>
                  \A j \in 1..(i - 1) : log[j] # <<"delete", log[i][2]>>
        /\ pc = "gone" => (Deleted = owned /\ live = {})

\* A list of three nodes whose order is not the order of allocation has
\* been destroyed.
C13_Witness ==
    /\ pc = "gone"
    /\ Len(owned) = 3
    /\ owned[1] > owned[2]
    /\ Len(log) = 6

\* C14: a traversal of the store (PrintList) visits each stored record
\* exactly once in head-to-tail order, ends after exactly Size() records,
\* does not change head, tail, the counter or any link, and a second
\* traversal with no mutation in between yields the same sequence.
C14_TraversalReadOnly ==
    [][ /\ (pc = "print" \/ pc' = "print") => UNCHANGED progVars
        /\ (pc = "print" /\ pc' = "print") =>
              log' = SubSeq(Records, 1, Len(log) + 1)
        /\ (pc = "print" /\ pc' = "idle") =>
              /\ log = Records
              /\ Len(log) = Size
              /\ prev.n > 0 => log = prev.out
      ]_vars

\* A second PrintList in a row has displayed three records, two of which
\* carry the same identifier.
C14_Witness ==
    /\ pc = "idle"
    /\ prev.n = 2
    /\ Len(prev.out) = 3
    /\ prev.out[1].bidId = prev.out[3].bidId
    /\ prev.out[1] # prev.out[3]

----------------------------------------------------------------------------
\* trimWhitespace (src/unnamed/part_004).  Positions in a string count from
\* 0, as in C++; the character at position p of s is s[p + 1].

\* Longest argument of trimWhitespace.
MaxLen == 4

\* The characters of the arguments: blank, tab, newline, carriage return and
\* two others.
Chars == {" ", "\t", "\n", "\r", "x", "y"}

\* The character set " \t\n\r" that trimWhitespace passes to the searches.
Whitespace == {" ", "\t", "\n", "\r"}

\* The strings of at most MaxLen characters.
Strings == UNION {[1..n -> Chars] : n \in 0..MaxLen}

\* std::string::npos
npos == -1

\* std::string::find_first_not_of
FindFirstNotOf(s, set) ==
    IF \E p \in 0..(Len(s) - 1) : s[p + 1] \notin set
    THEN CHOOSE p \in 0..(Len(s) - 1) :
            /\ s[p + 1] \notin set
            /\ \A q \in 0..(p - 1) : s[q + 1] \in set
    ELSE npos

\* std::string::find_last_not_of
FindLastNotOf(s, set) ==
    IF \E p \in 0..(Len(s) - 1) : s[p + 1] \notin set
    THEN CHOOSE p \in 0..(Len(s) - 1) :
            /\ s[p + 1] \notin set
            /\ \A q \in (p + 1)..(Len(s) - 1) : s[q + 1] \in set
    ELSE npos

\* std::string::substr(pos, count): count characters from pos, or as many
\* as there are.
Substr(s, pos, count) ==
    LET n == IF pos + count > Len(s) THEN Len(s) - pos ELSE count
    IN  SubSeq(s, pos + 1, pos + n)

\* trimWhitespace with a count that is one too small.
TrimShort(s) ==
    LET startPos == FindFirstNotOf(s, Whitespace)
        endPos == FindLastNotOf(s, Whitespace)
    IN  IF startPos = npos THEN << >>
        ELSE Substr(s, startPos, endPos - startPos)

\* trimWhitespace
trimWhitespace(s) ==
    LET startPos == FindFirstNotOf(s, Whitespace)
        endPos == FindLastNotOf(s, Whitespace)
    IN  IF startPos = npos THEN << >>
        ELSE Substr(s, startPos, endPos - startPos + 1)

\* Some string is about to be trimmed.
InitTrim ==
    /\ StoreInit
    /\ CsvInit
    /\ LoopInit
    /\ input \in Strings
    /\ trimmed = NotTrimmed

\* The call trimWhitespace(input).
CallTrim ==
    /\ trimmed = NotTrimmed
    /\ trimmed' = trimWhitespace(input)
    /\ UNCHANGED <<progVars, testVars, last, calls, walkVars, menuVars, csvVars,
                   loopVars, input>>

NextTrim == CallTrim

SpecTrim == InitTrim /\ [][NextTrim]_vars

\* Every character of s is a whitespace character.
AllWhitespace(s) == \A k \in 1..Len(s) : s[k] \in Whitespace

\* C17: trimWhitespace(s) returns s with every leading and every trailing
\* space, tab, newline and carriage return removed and all characters
\* between the first and last non-whitespace character unchanged (interior
\* whitespace kept); it returns the empty string when s is empty or consists
\* only of those characters.
C17_TrimRemovesOuterWhitespace ==
    trimmed # NotTrimmed =>
        /\ \E a, b \in 0..Len(input) :
              /\ a + Len(trimmed) + b = Len(input)
              /\ AllWhitespace(SubSeq(input, 1, a))
              /\ AllWhitespace(SubSeq(input, Len(input) - b + 1, Len(input)))
              /\ trimmed = SubSeq(input, a + 1, Len(input) - b)
        /\ trimmed # << >> =>
              /\ trimmed[1] \notin Whitespace
              /\ trimmed[Len(trimmed)] \notin Whitespace
        /\ AllWhitespace(input) => trimmed = << >>

\* A string with a carriage return in front, a newline behind and a blank
\* inside has been trimmed to the three characters in between.
C17_Witness ==
    /\ input = <<"\r", "x", " ", "y">> \/ input = <<"x", " ", "y", "\n">>
    /\ trimmed = <<"x", " ", "y">>

----------------------------------------------------------------------------
\* The menu of main() (src/unnamed/part_003) and loadBids.  The csv::Parser
\* is not part of the sources; it is modelled after sections 4.2 and 7 of
\* the specification.

\* A double is counted in hundredths: 120050 is 1200.50.  The strings of the
\* model carry at most two decimals and no exponent.

\* The decimal digits and their values.
Digit == [c \in {"0", "1", "2", "3", "4", "5", "6", "7", "8", "9"} |->
            CASE c = "0" -> 0 [] c = "1" -> 1 [] c = "2" -> 2 [] c = "3" -> 3
              [] c = "4" -> 4 [] c = "5" -> 5 [] c = "6" -> 6 [] c = "7" -> 7
              [] c = "8" -> 8 [] c = "9" -> 9]

\* The length of the longest run of digits of s that starts at position
\* from (positions count from 1 here).
RECURSIVE DigitRun(_, _)
DigitRun(s, from) ==
    IF from <= Len(s) /\ s[from] \in DOMAIN Digit
    THEN 1 + DigitRun(s, from + 1)
    ELSE 0

\* The number written by a sequence of digits, 0 for none.
RECURSIVE Number(_)
Number(d) ==
    IF d = << >> THEN 0
    ELSE 10 * Number(SubSeq(d, 1, Len(d) - 1)) + Digit[d[Len(d)]]

\* atof: leading whitespace is skipped, then an optional sign, digits, and
\* an optional point with digits are read; reading stops at the first
\* character that does not fit, and nothing read gives 0.
atof(s) ==
    LET first == FindFirstNotOf(s, Whitespace)
        start == IF first = npos THEN Len(s) + 1 ELSE first + 1
        signed == start <= Len(s) /\ s[start] \in {"+", "-"}
        intAt == IF signed THEN start + 1 ELSE start
        intLen == DigitRun(s, intAt)
        dot == intAt + intLen
        fracLen == IF dot <= Len(s) /\ s[dot] = "."
                   THEN DigitRun(s, dot + 1) ELSE 0
        int == Number(SubSeq(s, intAt, intAt + intLen - 1))
        tenths == IF fracLen >= 1 THEN Digit[s[dot + 1]] ELSE 0
        hundredths == IF fracLen >= 2 THEN Digit[s[dot + 2]] ELSE 0
        value == 100 * int + 10 * tenths + hundredths
    IN  IF intLen + fracLen = 0 THEN 0
        ELSE IF signed /\ s[start] = "-" THEN 0 - value ELSE value

\* strToDouble: every ch is erased from str, the rest goes to atof.
strToDouble(str, ch) == atof(SelectSeq(str, LAMBDA c : c # ch))

\* Strings that occur in the files below.
Roadwork == <<"R", "o", "a", "d", "w", "o", "r", "k">>
Id98109 == <<"9", "8", "1", "0", "9">>
GEN == <<"G", "E", "N">>
Amount == <<"$", "1", "2", "0", "0", ".", "5", "0">>
Filler == <<"-">>

\* Data rows: the row of the scenario (title, id, fund, amount), the same
\* record laid out as the program reads it, a row laid out the same way
\* whose identifier cell is empty, and a row of two cells.
ScenarioRow == <<Roadwork, Id98109, GEN, Amount>>
WideRow == <<Roadwork, Id98109, Filler, Filler, Amount, Filler, Filler,
             Filler, GEN>>
NoIdRow == <<Roadwork, << >>, Filler, Filler, Amount, Filler, Filler,
             Filler, GEN>>
ShortRow == <<Roadwork, <<"a">>>>
OtherRow == <<<<"t">>, <<"a">>, Filler, Filler, <<"$", "7">>, Filler, Filler,
              Filler, <<"f">>>>

\* The files offered to Load Bids: one that cannot be opened, one with a
\* malformed line, and readable ones given by their data rows.
Files ==
    {[kind |-> "missing", rows |-> << >>],
     [kind |-> "malformed", rows |-> << >>]} \cup
    {[kind |-> "ok", rows |-> r] :
        r \in {<< >>, <<ScenarioRow>>, <<WideRow>>, <<NoIdRow>>,
               <<WideRow, ShortRow>>, <<WideRow, OtherRow>>}}

\* Document Model Load(path): FileError for a file that cannot be opened,
\* ParseError for a malformed line, else the row table.
ParserLoad(f) ==
    IF f.kind = "ok"
    THEN [error |-> FALSE, kind |-> "ok", rows |-> f.rows]
    ELSE [error |-> TRUE, kind |-> f.kind, rows |-> << >>]

\* Document Model RowCount()
rowCount(p) == Len(p.rows)

\* Document Model Cell(row, col): the bounds check, and the cell.
CellExists(p, r, c) ==
    /\ r >= 0 /\ r < Len(p.rows)
    /\ c >= 0 /\ c < Len(p.rows[r + 1])

Cell(p, r, c) == p.rows[r + 1][c + 1]

\* The columns of the scenario: title, id, fund, amount at 0, 1, 2, 3.
ScenarioColumns == [bidId |-> 1, title |-> 0, fund |-> 2, amount |-> 3]

\* loadBids: file[i][1], file[i][0], file[i][8], file[i][4]
Columns == [bidId |-> 1, title |-> 0, fund |-> 8, amount |-> 4]

\* loadBids: every cell that the loop body reads from row r exists.
RowReadable(p, r) ==
    \A f \in DOMAIN Columns : CellExists(p, r, Columns[f])

\* loadBids: the bid built from row r.
RowBid(p, r) ==
    [bidId |-> Cell(p, r, Columns.bidId),
     title |-> Cell(p, r, Columns.title),
     fund |-> Cell(p, r, Columns.fund),
     amount |-> strToDouble(Cell(p, r, Columns.amount), "$")]

\* getBid: the bids a user types.  The identifier and the title are whole
\* lines (possibly empty), the fund is a word.
Funds == {<<"f">>}
TypedBids ==
    [bidId : {<< >>, <<"a">>}, title : {<<"t">>}, fund : Funds,
     amount : {strToDouble(<<"$", "1">>, "$")}]

\* The lines typed at "Enter Bid ID to find" and "Enter Bid ID to remove".
Lines == {<< >>, <<" ">>, <<"a">>, <<" ", "a", "\t">>, <<"A">>, <<"a", "\r">>}

\* main, cases 4 and 5: the trimming of the typed line.
InlineTrim(s) ==
    LET startPos == FindFirstNotOf(s, {" ", "\t"})
        endPos == FindLastNotOf(s, {" ", "\t"})
    IN  IF startPos # npos
        THEN Substr(s, startPos, endPos - startPos + 1)
        ELSE << >>

\* displayResult(title, ...); n is the count shown by "n bids read".
Display(title, n) == [title |-> title, n |-> n]

idleVars == <<testVars, last, calls, walkVars, sideVars>>

\* main, case 1 without the search for an existing identifier.
MenuEnterBidUnchecked(b) ==
    /\ pc = "idle"
    /\ Cardinality(live) < MaxNodes
    /\ AppendBid(b)
    /\ shown' = Display("BID ADDED", 0)
    /\ UNCHANGED <<idleVars, file, row, before, cerr, loaded>>

\* main, case 1: Enter Bid
MenuEnterBid(b) ==
    /\ pc = "idle"
    /\ IF Search(b.bidId).bidId # << >>
       THEN /\ shown' = Display("ERROR", 0)
            /\ UNCHANGED progVars
       ELSE /\ Cardinality(live) < MaxNodes
            /\ AppendBid(b)
            /\ shown' = Display("BID ADDED", 0)
    /\ UNCHANGED <<idleVars, file, row, before, cerr, loaded>>

\* main, case 4: Find Bid
MenuFindBid(line) ==
    LET searchId == InlineTrim(line) IN
    /\ pc = "idle"
    /\ shown' = IF searchId = << >> THEN Display("ERROR", 0)
                ELSE IF Search(searchId).bidId # << >>
                     THEN Display("BID FOUND", 0)
                     ELSE Display("NOT FOUND", 0)
    /\ UNCHANGED <<progVars, idleVars, file, row, before, cerr, loaded>>

\* main, case 5: Remove Bid
MenuRemoveBid(line) ==
    LET removeId == InlineTrim(line) IN
    /\ pc = "idle"
    /\ IF removeId = << >>
       THEN /\ shown' = Display("ERROR", 0)
            /\ UNCHANGED progVars
       ELSE IF Search(removeId).bidId # << >>
            THEN /\ Remove(removeId)
                 /\ shown' = Display("BID REMOVED", 0)
            ELSE /\ shown' = Display("NOT FOUND", 0)
                 /\ UNCHANGED progVars
    /\ UNCHANGED <<idleVars, file, row, before, cerr, loaded>>

\* main, case 2, and loadBids up to the loop: csv::Parser file(csvPath).
\* A csv::Error of the constructor is caught and printed to cerr.
LoadStart(f) ==
    /\ pc = "idle"
    /\ Cardinality(live) + Len(f.rows) <= MaxNodes
    /\ file' = ParserLoad(f)
    /\ row' = 0
    /\ before' = Records
    /\ loaded' = TRUE
    /\ cerr' = ParserLoad(f).error
    /\ pc' = IF ParserLoad(f).error THEN "loaded" ELSE "load"
    /\ UNCHANGED <<progVars, testVars, last, calls, sideVars, shown,
                   cur, nextNode, log, owned, prev>>

\* A loop of loadBids that puts each bid in front of the list.
LoadRowPrepends ==
    /\ pc = "load"
    /\ row < rowCount(file)
    /\ IF RowReadable(file, row)
       THEN /\ Prepend(RowBid(file, row))
            /\ row' = row + 1
            /\ UNCHANGED <<pc, cerr>>
       ELSE /\ cerr' = TRUE
            /\ pc' = "loaded"
            /\ UNCHANGED <<progVars, row>>
    /\ UNCHANGED <<testVars, last, calls, sideVars, file, before, shown,
                   loaded, cur, nextNode, log, owned, prev>>

\* loadBids: one turn of the loop.  A csv::Error of a cell access is caught
\* and printed to cerr, which ends loadBids.
LoadRow ==
    /\ pc = "load"
    /\ row < rowCount(file)
    /\ IF RowReadable(file, row)
       THEN /\ AppendBid(RowBid(file, row))
            /\ row' = row + 1
            /\ UNCHANGED <<pc, cerr>>
       ELSE /\ cerr' = TRUE
            /\ pc' = "loaded"
            /\ UNCHANGED <<progVars, row>>
    /\ UNCHANGED <<testVars, last, calls, sideVars, file, before, shown,
                   loaded, cur, nextNode, log, owned, prev>>

\* loadBids: the loop ends after the last row.
LoadEnd ==
    /\ pc = "load"
    /\ ~(row < rowCount(file))
    /\ pc' = "loaded"
    /\ UNCHANGED <<progVars, testVars, last, calls, sideVars, menuVars,
                   cur, nextNode, log, owned, prev>>

\* main, case 2 after loadBids has returned.
LoadShown ==
    /\ pc = "loaded"
    /\ shown' = Display("BIDS LOADED", Size)
    /\ pc' = "idle"
    /\ UNCHANGED <<progVars, testVars, last, calls, sideVars, file, row,
                   before, cerr, loaded, cur, nextNode, log, owned, prev>>

NextMenu ==
    \/ \E b \in TypedBids : MenuEnterBid(b)
    \/ \E line \in Lines : MenuFindBid(line)
    \/ \E line \in Lines : MenuRemoveBid(line)
    \/ \E f \in Files : LoadStart(f)
    \/ LoadRow
    \/ LoadEnd
    \/ LoadShown

SpecMenu == Init /\ [][NextMenu]_vars

\* The menu is waiting for a choice.
AtMenu == pc = "idle"

\* Load Bids was the last action of the menu and is complete.
JustLoaded == AtMenu /\ shown.title = "BIDS LOADED"

\* The identifiers of the stored records, head to tail.
StoredIdsInOrder == [k \in 1..Len(Records) |-> Records[k].bidId]

\* C15: the Enter Bid menu action never appends a bid whose identifier is
\* already carried by a record in the list: as long as the list has been
\* built through Enter Bid and Remove Bid only (Load Bids never chosen), the
\* identifiers of the stored records are pairwise distinct.
C15_EnterBidKeepsIdsDistinct ==
    (AtMenu /\ ~loaded) =>
        \A j, k \in 1..Len(Records) :
            j # k => StoredIdsInOrder[j] # StoredIdsInOrder[k]

\* C16: whenever the menu waits for a choice, after any sequence of Enter
\* Bid, Load Bids and Remove Bid, no stored record has the empty identifier,
\* so a Search result with an empty identifier means that no stored record
\* carries the identifier searched for.
C16_NoEmptyIdStored ==
    AtMenu =>
        /\ \A k \in 1..Len(Records) : StoredIdsInOrder[k] # << >>
        /\ \A id \in Ids :
              Search(id).bidId = << >> =>
                  \A k \in 1..Len(Records) : StoredIdsInOrder[k] # id

\* C18: when loadBids has ended with a CSV error, the list holds exactly the
\* records, in the same order, that it held before the call.
C18_FailedLoadChangesNothing ==
    (JustLoaded /\ cerr) => Records = before

\* C19: a load that ended with a file or parse error is not reported by the
\* menu as a completed load.
C19_FailedLoadNotReportedLoaded ==
    (AtMenu /\ cerr) => shown.title # "BIDS LOADED"

\* The record of the scenario.
ScenarioRecord ==
    [bidId |-> Id98109, title |-> Roadwork, fund |-> GEN, amount |-> 120050]

\* C20 as stated: loading the file whose single data row is
\* Roadwork,98109,GEN,$1200.50 (title, id, fund, amount in columns 0 to 3)
\* yields exactly one record, with identifier 98109, title Roadwork and tag
\* GEN.
C20_ScenarioFileLoads ==
    (JustLoaded /\ file.rows = <<ScenarioRow>>) =>
        Records = before \o <<ScenarioRecord>>

\* C20, amended: loading a file whose single data row has Roadwork in
\* column 0, 98109 in column 1, $1200.50 in column 4 and GEN in column 8
\* yields exactly one record, with identifier 98109, title Roadwork and tag
\* GEN; every load without error appends of each row the cells of columns
\* 1, 0 and 8 as identifier, title and tag, whatever the file; the file of
\* the scenario yields no record and a CSV error.
C20_FixedColumnsLoad ==
    /\ (JustLoaded /\ file.rows = <<WideRow>>) =>
          /\ ~cerr
          /\ Records = before \o <<ScenarioRecord>>
    /\ (JustLoaded /\ ~cerr) =>
          /\ \A k \in 1..Len(file.rows) : Len(file.rows[k]) >= 9
          /\ Records = before \o
                [k \in 1..Len(file.rows) |->
                    [bidId |-> file.rows[k][2], title |-> file.rows[k][1],
                     fund |-> file.rows[k][9],
                     amount |-> strToDouble(file.rows[k][5], "$")]]
    /\ (JustLoaded /\ file.rows = <<ScenarioRow>>) =>
          /\ cerr
          /\ Records = before

\* The row with the record in columns 0, 1, 4 and 8 has been loaded into an
\* empty list, which now holds the record of the scenario.
C20_Witness ==
    /\ JustLoaded
    /\ file.rows = <<WideRow>>
    /\ before = << >>
    /\ Records = <<ScenarioRecord>>

\* The record of the second row of the two-row file.
OtherRecord ==
    [bidId |-> <<"a">>, title |-> <<"t">>, fund |-> <<"f">>, amount |-> 700]

\* C21: a loadBids without error on a file with n data rows appends exactly
\* n records after the records already in the list, in row order, each with
\* the title of column 0, the bidId of column 1, the amount of column 4 and
\* the fund of column 8; the records present before keep their positions.
C21_LoadAppendsRowsInOrder ==
    (JustLoaded /\ ~cerr) =>
        /\ Len(Records) = Len(before) + rowCount(file)
        /\ SubSeq(Records, 1, Len(before)) = before
        /\ \A k \in 1..rowCount(file) :
              LET r == file.rows[k]
                  b == Records[Len(before) + k]
              IN  /\ Len(r) >= 9
                  /\ b.title = r[1]
                  /\ b.bidId = r[2]
                  /\ b.fund = r[9]
                  /\ b.amount = atof(SelectSeq(r[5], LAMBDA c : c # "$"))
        /\ file.rows = <<WideRow, OtherRow>> =>
              Records = before \o <<ScenarioRecord, OtherRecord>>

\* The file of two rows has been loaded into a list that held a record, and
\* the list now holds that record and then the records of the two rows.
C21_Witness ==
    /\ JustLoaded /\ ~cerr
    /\ file.rows = <<WideRow, OtherRow>>
    /\ Len(before) = 1
    /\ Records = before \o <<ScenarioRecord, OtherRecord>>

\* C24: the number shown as "N bids read" after Load Bids equals the number
\* of records that this load appended to the list, whatever the list held
\* when Load Bids was chosen.
C24_BidsReadCountsAppended ==
    JustLoaded => shown.n = Len(Records) - Len(before)

----------------------------------------------------------------------------
\* The Field Tokenizer and the Document Model (the csv::Parser of
\* CSVparser.hpp, which is not part of the sources), after sections 4.1 and
\* 4.2 of the specification.

\* Longest field of a row table, and longest text of a file.
MaxFieldLen == 2
MaxTextLen == 4

Quote == "\""
Delimiter == ","
Newline == "\n"

\* The characters of fields and files: the delimiter, the quote character,
\* the newline and one other.
CsvChars == {Delimiter, Quote, Newline, "a"}

\* Field Tokenizer: the scan of one line from position k on.  mode is
\* "start" at the beginning of a field, "plain" inside an unquoted field,
\* "quoted" inside the quoted region of a field and "closed" after it.
RECURSIVE Scan(_, _, _, _, _)
Scan(line, k, mode, field, fields) ==
    IF k > Len(line)
    THEN IF mode = "quoted"
         THEN [ok |-> FALSE, fields |-> << >>]
         ELSE [ok |-> TRUE, fields |-> Append(fields, field)]
    ELSE IF mode = "quoted"
         THEN IF line[k] = Quote
              THEN IF k < Len(line) /\ line[k + 1] = Quote
                   THEN Scan(line, k + 2, "quoted", Append(field, Quote),
                             fields)
                   ELSE Scan(line, k + 1, "closed", field, fields)
              ELSE Scan(line, k + 1, "quoted", Append(field, line[k]), fields)
         ELSE IF line[k] = Delimiter
              THEN Scan(line, k + 1, "start", << >>, Append(fields, field))
              ELSE IF line[k] = Quote /\ mode = "start"
                   THEN Scan(line, k + 1, "quoted", field, fields)
                   ELSE Scan(line, k + 1,
                             IF mode = "start" THEN "plain" ELSE mode,
                             Append(field, line[k]), fields)

\* Field Tokenizer: the fields of one line, or a parse error.
Tokenize(line) == Scan(line, 1, "start", << >>, << >>)

\* Serialize: a field that contains the delimiter, a quote character or a
\* newline is quoted, its quote characters doubled.
NeedsQuotes(f) == \E k \in 1..Len(f) : f[k] \in {Delimiter, Quote, Newline}

RECURSIVE Doubled(_)
Doubled(f) ==
    IF f = << >> THEN << >>
    ELSE (IF Head(f) = Quote THEN <<Quote, Quote>> ELSE <<Head(f)>>)
         \o Doubled(Tail(f))

RenderField(f) ==
    IF NeedsQuotes(f) THEN <<Quote>> \o Doubled(f) \o <<Quote>> ELSE f

\* Serialize: the fields of a row, separated by the delimiter.
RECURSIVE RenderLine(_)
RenderLine(fields) ==
    IF fields = << >> THEN << >>
    ELSE IF Len(fields) = 1 THEN RenderField(fields[1])
    ELSE RenderField(Head(fields)) \o <<Delimiter>> \o RenderLine(Tail(fields))

RECURSIVE RenderRows(_)
RenderRows(rows) ==
    IF rows = << >> THEN << >>
    ELSE RenderLine(Head(rows)) \o <<Newline>> \o RenderRows(Tail(rows))

\* Document Model Serialize(): the header line, then a line for each row.
Serialize(d) == RenderLine(d.header) \o <<Newline>> \o RenderRows(d.rows)

\* Load: the lines of a text.  A newline ends a line; characters after the
\* last newline are a line of their own.
RECURSIVE SplitLines(_, _)
SplitLines(t, line) ==
    IF t = << >> THEN IF line = << >> THEN << >> ELSE <<line>>
    ELSE IF Head(t) = Newline THEN <<line>> \o SplitLines(Tail(t), << >>)
    ELSE SplitLines(Tail(t), Append(line, Head(t)))

\* The Document Model without header and rows.
EmptyModel(error, line) ==
    [error |-> error, line |-> line, header |-> << >>, rows |-> << >>]

\* A Load that keeps what it had read when a line is malformed.
RECURSIVE LoadLinesKeeps(_, _, _, _)
LoadLinesKeeps(lines, k, header, rows) ==
    IF k > Len(lines)
    THEN [error |-> "none", line |-> 0, header |-> header, rows |-> rows]
    ELSE IF k > 1 /\ lines[k] = << >>
    THEN LoadLinesKeeps(lines, k + 1, header, rows)
    ELSE IF ~Tokenize(lines[k]).ok
    THEN [error |-> "ParseError", line |-> k, header |-> header,
          rows |-> rows]
    ELSE IF k = 1
    THEN LoadLinesKeeps(lines, k + 1, Tokenize(lines[k]).fields, rows)
    ELSE LoadLinesKeeps(lines, k + 1, header,
                        Append(rows, Tokenize(lines[k]).fields))

\* Load: line 1 is the header, the other lines are rows; a line without
\* characters is skipped; a malformed line ends the Load with a ParseError
\* that carries its number, and the model is left empty.
RECURSIVE LoadLines(_, _, _, _)
LoadLines(lines, k, header, rows) ==
    IF k > Len(lines)
    THEN [error |-> "none", line |-> 0, header |-> header, rows |-> rows]
    ELSE IF k > 1 /\ lines[k] = << >>
    THEN LoadLines(lines, k + 1, header, rows)
    ELSE IF ~Tokenize(lines[k]).ok
    THEN EmptyModel("ParseError", k)
    ELSE IF k = 1
    THEN LoadLines(lines, k + 1, Tokenize(lines[k]).fields, rows)
    ELSE LoadLines(lines, k + 1, header,
                   Append(rows, Tokenize(lines[k]).fields))

\* Document Model Load(path), given the text of the file.
Load(t) == LoadLines(SplitLines(t, << >>), 1, << >>, << >>)

\* The fields, rows and row tables that are serialized, and the texts that
\* are loaded.
Fields == UNION {[1..n -> CsvChars] : n \in 0..MaxFieldLen}
Rows == {<<f>> : f \in Fields} \cup {<<f, g>> : f, g \in Fields}
HeaderRow == <<<<"a">>, <<"a", "a">>>>
PlainRow == <<<<"a">>, << >>>>

\* The row "Acme, Inc","Bid 1",100.00 and a line with an unterminated quote.
AcmeInc == <<"A", "c", "m", "e", ",", " ", "I", "n", "c">>
AcmeRow == <<AcmeInc, <<"B", "i", "d", " ", "1">>,
             <<"1", "0", "0", ".", "0", "0">>>>
AcmeTable == [header |-> <<<<"a">>, <<"a">>, <<"a">>>>, rows |-> <<AcmeRow>>]
AcmeOpen == <<Quote>> \o AcmeInc

Tables ==
    {[header |-> r, rows |-> << >>] : r \in Rows} \cup
    {[header |-> HeaderRow, rows |-> <<r>>] : r \in Rows} \cup
    {[header |-> HeaderRow, rows |-> <<PlainRow, r>>] : r \in Rows} \cup
    {AcmeTable}

Texts ==
    UNION {[1..n -> CsvChars] : n \in 0..MaxTextLen} \cup
    {AcmeOpen, <<"a", Newline>> \o AcmeOpen \o <<Newline, "a">>}

\* Either a row table is about to be serialized, or a text to be loaded.
InitCsv ==
    /\ StoreInit
    /\ LoopInit
    /\ input = << >> /\ trimmed = NotTrimmed
    /\ model = NotLoaded
    /\ \/ doc \in Tables /\ text = NoText
       \/ doc = NoDoc /\ text \in Texts

csvFrame == <<progVars, testVars, last, calls, walkVars, menuVars, trimVars,
              loopVars>>

\* Serialize() of the row table, written out as the text of a file.
CsvSerialize ==
    /\ doc # NoDoc /\ text = NoText
    /\ text' = Serialize(doc)
    /\ UNCHANGED <<csvFrame, doc, model>>

\* Load(path) of the text.
CsvLoad ==
    /\ text # NoText /\ model = NotLoaded
    /\ model' = Load(text)
    /\ UNCHANGED <<csvFrame, doc, text>>

NextCsv == CsvSerialize \/ CsvLoad

SpecCsv == InitCsv /\ [][NextCsv]_vars

\* C22: for every row table whose fields may contain the delimiter, a quote
\* character or a newline, loading the text produced by Serialize gives back
\* the same header and the same rows, field for field.
C22_SerializeRoundTrip ==
    (doc # NoDoc /\ model # NotLoaded) =>
        /\ model.error = "none"
        /\ model.header = doc.header
        /\ model.rows = doc.rows

\* The positions of the newlines of a text, its number of lines, and its
\* j-th line.
NewlinesOf(t) == {k \in 1..Len(t) : t[k] = Newline}

LineCount(t) ==
    Cardinality(NewlinesOf(t))
        + (IF t # << >> /\ t[Len(t)] # Newline THEN 1 ELSE 0)

NthNewline(t, j) ==
    CHOOSE k \in NewlinesOf(t) :
        Cardinality({m \in NewlinesOf(t) : m < k}) = j - 1

NthLine(t, j) ==
    SubSeq(t,
           IF j = 1 THEN 1 ELSE NthNewline(t, j - 1) + 1,
           IF j <= Cardinality(NewlinesOf(t))
           THEN NthNewline(t, j) - 1 ELSE Len(t))

\* Where the first k characters of a line leave a reader of quoted fields:
\* at the start of a field, in an unquoted field, in a quoted region, just
\* behind a quote character met in a quoted region, or behind a closed
\* quoted region.
RECURSIVE QuoteState(_, _)
QuoteState(line, k) ==
    IF k = 0 THEN "start"
    ELSE LET q == QuoteState(line, k - 1)
             c == line[k]
         IN  CASE q = "quoted" -> IF c = Quote THEN "pending" ELSE "quoted"
               [] q = "pending" -> IF c = Quote THEN "quoted"
                                   ELSE IF c = Delimiter THEN "start"
                                   ELSE "closed"
               [] q = "start" -> IF c = Quote THEN "quoted"
                                 ELSE IF c = Delimiter THEN "start"
                                 ELSE "plain"
               [] OTHER -> IF c = Delimiter THEN "start" ELSE q

EndsInOpenQuote(line) == QuoteState(line, Len(line)) = "quoted"

\* The lines of the text that end inside an open quoted field.
OpenLines == {j \in 1..LineCount(text) : EndsInOpenQuote(NthLine(text, j))}

\* C23: when some line of the loaded file ends inside an open quoted field,
\* Load has raised a ParseError that carries the number of the first such
\* line, and the document model is empty (no header, no rows), also when
\* earlier lines parsed correctly.
C23_OpenQuoteIsParseError ==
    (text # NoText /\ model # NotLoaded /\ OpenLines # {}) =>
        /\ model.error = "ParseError"
        /\ model.line \in OpenLines
        /\ \A j \in OpenLines : model.line <= j
        /\ model.header = << >>
        /\ model.rows = << >>

\* A text whose first line parses and whose second line ends inside a
\* quoted field has been loaded; the error names line 2, the model is empty.
C23_Witness ==
    /\ text = <<"a", Newline, Quote, "a">>
    /\ model = EmptyModel("ParseError", 2)

----------------------------------------------------------------------------
\* The menu loop of main() (src/unnamed/part_003) reading standard input.
\* Standard input holds choice lines only, each a digit and a newline, the
\* last one 9; the choices are 2 (Load Bids), 3 (Display All Bids), 7 (no
\* such choice) and 9 (Exit), whose cases read no further line.  csvPath
\* names a file that cannot be opened, so the list stays empty.

\* Most choice lines on standard input.
MaxChoices == 4

ChoiceLines == {<<"2">>, <<"3">>, <<"7">>}

Scripts ==
    {Append(sc, <<"9">>) :
        sc \in UNION {[1..n -> ChoiceLines] : n \in 0..(MaxChoices - 1)}}

\* The characters of the lines, each line ended by a newline.
RECURSIVE TextOf(_)
TextOf(lines) ==
    IF lines = << >> THEN << >>
    ELSE Head(lines) \o <<Newline>> \o TextOf(Tail(lines))

InitLoop ==
    /\ StoreInit
    /\ CsvInit
    /\ input = << >> /\ trimmed = NotTrimmed
    /\ script \in Scripts
    /\ stdin = TextOf(script)
    /\ choice = 0
    /\ executed = << >>

\* What operator>> leaves after it has skipped leading whitespace.
RECURSIVE SkipWs(_)
SkipWs(s) ==
    IF s # << >> /\ Head(s) \in Whitespace THEN SkipWs(Tail(s)) ELSE s

\* cin.ignore(numeric_limits<streamsize>::max(), '\n'): what is left after
\* everything up to and including the next newline has been discarded.
RECURSIVE IgnoreLine(_)
IgnoreLine(s) ==
    IF s = << >> THEN << >>
    ELSE IF Head(s) = Newline THEN Tail(s)
    ELSE IgnoreLine(Tail(s))

loopFrame == <<progVars, testVars, last, calls, trimVars, csvVars,
               cur, nextNode, log, owned, prev, script>>

\* main: while (choice != 9), cin >> choice, and either the failure branch
\* up to waitForEnter or the cin.ignore of the success path.
LoopRead ==
    LET rest == SkipWs(stdin)
        n == DigitRun(rest, 1)
    IN  /\ pc = "idle"
        /\ choice # 9
        /\ IF n = 0
           THEN /\ stdin' = IgnoreLine(rest)
                /\ shown' = Display("ERROR", 0)
                /\ choice' = 0
                /\ pc' = "wait"
           ELSE /\ choice' = Number(SubSeq(rest, 1, n))
                /\ stdin' = IgnoreLine(SubSeq(rest, n + 1, Len(rest)))
                /\ pc' = "switch"
                /\ UNCHANGED shown
        /\ UNCHANGED <<loopFrame, executed, file, row, before, cerr, loaded>>

\* main, case 2: loadBids fails in the constructor of the parser, then the
\* box BIDS LOADED, then waitForEnter.
LoopCase2 ==
    /\ pc = "switch" /\ choice = 2
    /\ file' = ParserLoad([kind |-> "missing", rows |-> << >>])
    /\ row' = 0
    /\ before' = Records
    /\ loaded' = TRUE
    /\ cerr' = TRUE
    /\ shown' = Display("BIDS LOADED", Size)
    /\ executed' = Append(executed, choice)
    /\ pc' = "wait"
    /\ UNCHANGED <<loopFrame, stdin, choice>>

\* main, case 3: the error box or PrintList, then waitForEnter.
LoopCase3 ==
    /\ pc = "switch" /\ choice = 3
    /\ shown' = IF Size = 0 THEN Display("ERROR", 0)
                ELSE Display("ALL BIDS", Size)
    /\ executed' = Append(executed, choice)
    /\ pc' = "wait"
    /\ UNCHANGED <<loopFrame, stdin, choice, file, row, before, cerr, loaded>>

\* main, case 9: Goodbye, break.
LoopCase9 ==
    /\ pc = "switch" /\ choice = 9
    /\ executed' = Append(executed, choice)
    /\ pc' = "idle"
    /\ UNCHANGED <<loopFrame, menuVars, stdin, choice>>

\* main, default: the error box, then waitForEnter.
LoopDefault ==
    /\ pc = "switch" /\ choice \notin {1, 2, 3, 4, 5, 9}
    /\ shown' = Display("ERROR", 0)
    /\ executed' = Append(executed, choice)
    /\ pc' = "wait"
    /\ UNCHANGED <<loopFrame, stdin, choice, file, row, before, cerr, loaded>>

\* waitForEnter: cin.get() takes one character, if there is one.
WaitForEnter ==
    /\ pc = "wait"
    /\ stdin' = IF stdin = << >> THEN << >> ELSE Tail(stdin)
    /\ pc' = "idle"
    /\ UNCHANGED <<loopFrame, menuVars, choice, executed>>

\* main: the loop ends, return 0.
LoopExit ==
    /\ pc = "idle" /\ choice = 9
    /\ pc' = "exited"
    /\ UNCHANGED <<loopFrame, menuVars, stdin, choice, executed>>

NextLoop ==
    \/ LoopRead
    \/ LoopCase2
    \/ LoopCase3
    \/ LoopCase9
    \/ LoopDefault
    \/ WaitForEnter
    \/ LoopExit

SpecLoop == InitLoop /\ [][NextLoop]_vars

\* C25: when standard input is a finite stream of choice lines that ends
\* with 9, the program has run the case of every choice line, in input
\* order, when it terminates.
C25_EveryChoiceExecuted ==
    pc = "exited" =>
        executed = [k \in 1..Len(script) |-> Number(script[k])]

----------------------------------------------------------------------------
\* The nodes of the heap that the operations of the program's list read or
\* write through a pointer (the new node of Append and Prepend left aside).

\* LinkedList::Search: the nodes whose bid or next the loop reads.
RECURSIVE SearchWalkTouches(_, _, _)
SearchWalkTouches(current, bidId, fuel) ==
    IF current = NULL \/ fuel = 0 THEN {}
    ELSE IF StrEq(bid[current].bidId, bidId) THEN {current}
    ELSE {current} \cup SearchWalkTouches(next[current], bidId, fuel - 1)

SearchTouches(bidId) ==
    IF head = NULL THEN {}
    ELSE IF StrEq(bid[head].bidId, bidId) THEN {head}
    ELSE {head} \cup SearchWalkTouches(next[head], bidId, MaxNodes + 1)

\* LinkedList::Remove: current, whose next is read and written, and
\* current->next, whose bid and next are read.
RECURSIVE RemoveWalkTouches(_, _, _)
RemoveWalkTouches(current, bidId, fuel) ==
    IF fuel = 0 THEN {}
    ELSE IF next[current] = NULL THEN {current}
    ELSE IF StrEq(bid[next[current]].bidId, bidId)
    THEN {current, next[current]}
    ELSE {current} \cup RemoveWalkTouches(next[current], bidId, fuel - 1)

RemoveTouches(bidId) ==
    IF head = NULL THEN {}
    ELSE IF StrEq(bid[head].bidId, bidId) THEN {head}
    ELSE {head} \cup RemoveWalkTouches(head, bidId, MaxNodes + 1)

\* LinkedList::Append: tail->next = newNode
AppendTouches == IF head = NULL THEN {} ELSE {tail}

\* LinkedList::Prepend: newNode->next = head reads the pointer head only.
PrependTouches == {}

\* PrintList and the destructor: the node that the next step reads or
\* deletes.
StepTouches ==
    IF pc \in {"print", "dtor", "dtor2"} /\ cur # NULL THEN {cur} ELSE {}

\* C26: after any sequence of Append, Prepend and Remove no deleted node is
\* reachable from head or pointed to by tail, and no operation (Append,
\* Prepend, Remove, Search, PrintList, the destructor) reads or writes a
\* node that has been deleted.
C26_NoUseAfterDelete ==
    /\ pc = "idle" =>
          /\ Reachable \subseteq live
          /\ {head, tail} \subseteq live \cup {NULL}
          /\ AppendTouches \subseteq live
          /\ PrependTouches \subseteq live
          /\ \A id \in Ids :
                /\ SearchTouches(id) \subseteq live
                /\ RemoveTouches(id) \subseteq live
    /\ StepTouches \subseteq live

\* A node has been deleted (its handle is free below a handle in use) and
\* the list still holds two nodes.
C26_Witness ==
    /\ pc = "idle"
    /\ \E n \in Nodes \ live : \E m \in live : m > n
    /\ Cardinality(Reachable) = 2

\* C27: no node leaks.  Between operations every node allocated and not
\* deleted is reachable from head; Append and Prepend allocate one node and
\* delete none; a Remove deletes exactly the node it unlinks, a node that
\* was allocated and not yet deleted, and deletes one node whenever it
\* shrinks the list; the destructor leaves no node allocated.
C27_NoLeak ==
    [][ /\ (pc = "idle" /\ pc' = "idle") =>
              /\ live' = Reachable'
              /\ live \ live' = Reachable \ Reachable'
              /\ Cardinality(live \ live') <= 1
              /\ size' < size => Cardinality(live \ live') = 1
              /\ size' > size => Cardinality(live' \ live) = 1
        /\ pc' = "gone" => live' = {}
      ]_vars

\* The middle node of three has been removed: its handle is free, the other
\* two nodes are the list.
C27_Witness ==
    /\ pc = "idle"
    /\ live = {1, 3}
    /\ Reachable = {1, 3}
    /\ size = 2

----------------------------------------------------------------------------
\* C28: run side by side on the same calls, the list of the test file and
\* the list of the program hold the same head-to-tail record sequence and
\* the same Size(); the test Remove returns true exactly when the program's
\* Remove shrinks the list; the test Search returns non-null exactly when
\* the result of the program's Search has a non-empty bidId.
C28_TestListMirrorsProgram ==
    [][ /\ Records' = TestRecords'
        /\ Size' = TestSize'
        /\ last'.op = "Remove" => (last'.ret <=> Size' < Size)
        /\ last'.op = "Search" =>
              (last'.tresult # NULL <=> last'.result.bidId # << >>)
      ]_vars

\* C29: the trimming done inline by Find Bid and Remove Bid gives the same
\* string as trimWhitespace for every input line.
C29_InlineTrimIsTrimWhitespace ==
    trimmed # NotTrimmed => InlineTrim(input) = trimmed

\* All but the last, and all but the first, element of a sequence.
Front(q) == SubSeq(q, 1, Len(q) - 1)
Rest(q) == SubSeq(q, 2, Len(q))

\* tail is the last node of the chain and its next is null; null in an empty
\* list.
TailIsLast ==
    IF head = NULL THEN tail = NULL
    ELSE SimplePath(head, tail, next, size, Chain)

\* C30: adding then removing is a round trip.  Append adds its record
\* behind the stored ones and Prepend in front of them, raising Size() by
\* one; when the record's identifier is carried by none of the others, the
\* Remove of that identifier called next gives back the records that were
\* stored before, in order, and the Size() before, and leaves tail on the
\* last node, whose next is null.
C30_AddRemoveRoundTrip ==
    [][ /\ last'.op = "Append" =>
              /\ Records' = Records \o <<last'.rec>>
              /\ Size' = Size + 1
        /\ last'.op = "Prepend" =>
              /\ Records' = <<last'.rec>> \o Records
              /\ Size' = Size + 1
        /\ ( /\ last.op = "Append"
             /\ last'.op = "Remove"
             /\ last'.id = last.rec.bidId
             /\ ~Carried(Front(Records), last.rec.bidId) ) =>
              /\ Records' = Front(Records)
              /\ Size' = Size - 1
              /\ TailIsLast'
        /\ ( /\ last.op = "Prepend"
             /\ last'.op = "Remove"
             /\ last'.id = last.rec.bidId
             /\ ~Carried(Rest(Records), last.rec.bidId) ) =>
              /\ Records' = Rest(Records)
              /\ Size' = Size - 1
              /\ TailIsLast'
      ]_vars

\* A record appended to two others has been removed again: the Remove found
\* it in third place and two records are left.
C30_Witness ==
    /\ last.op = "Remove" /\ last.ret
    /\ last.pos = 3
    /\ Len(Records) = 2
    /\ ~Carried(Records, last.id)

====
